---- MODULE Spec2Model ----
(***************************************************************************)
(* Model of vargram_bot/model.py: the Mail, Threads, Post, Subreddit,      *)
(* Article and Feed classes.                                               *)
(*                                                                         *)
(* A Python str is modelled as a sequence of one-character strings, so     *)
(* that indexing, slicing, concatenation and escaping are computed as the  *)
(* code computes them.  A Python dict is modelled as the sequence of its   *)
(* (key, value) entries in insertion order, which is the order in which    *)
(* dict.items() yields them.                                               *)
(***************************************************************************)
EXTENDS Integers, Sequences, FiniteSets, TLC

VARIABLES thread, calls, rawSubject, mail, postArgs, post, postHtml, subreddit, posted, feed, published, emoji, wraps

vars == <<thread, calls, rawSubject, mail, postArgs, post, postHtml, subreddit, posted, feed, published, emoji, wraps>>

(***************************************************************************)
(* Bounds of the model.                                                    *)
(***************************************************************************)
MaxAppends == 3

MaxSubjectLen == 3

MaxPosts == 3

MaxArticles == 3

(***************************************************************************)
(* String literals, as character sequences.                                *)
(***************************************************************************)
DevBuildBroke == <<"[", "D", "e", "v", "]", " ", "B", "u", "i", "l", "d", " ", "b", "r", "o", "k", "e">>

ReBuildBroke == <<"R", "e", ":", " ", "B", "u", "i", "l", "d", " ", "b", "r", "o", "k", "e">>

ReDevBuildBroke == <<"R", "e", ":", " ", "[", "D", "e", "v", "]", " ", "B", "u", "i", "l", "d", " ", "b", "r", "o", "k", "e">>

Alice == <<"a", "l", "i", "c", "e">>

Bob == <<"b", "o", "b">>

Msg1 == <<"h", "t", "t", "p", ":", "/", "/", "l", "i", "s", "t", "/", "m", "s", "g", "/", "1">>

Msg2 == <<"h", "t", "t", "p", ":", "/", "/", "l", "i", "s", "t", "/", "m", "s", "g", "/", "2">>

Msg3 == <<"h", "t", "t", "p", ":", "/", "/", "l", "i", "s", "t", "/", "m", "s", "g", "/", "3">>

GroupHello == <<"[", "G", "r", "o", "u", "p", "]", " ", "H", "e", "l", "l", "o">>

Hello == <<"H", "e", "l", "l", "o">>

(***************************************************************************)
(* Python's None, and values that may be None.                             *)
(***************************************************************************)
NoneVal == [isNone |-> TRUE, str |-> <<>>]

Some(s) == [isNone |-> FALSE, str |-> s]

\* Python truthiness of a value that is None or a str: None and '' are falsy.
Truthy(v) == ~v.isNone /\ v.str # <<>>

(***************************************************************************)
(* str helpers.                                                            *)
(***************************************************************************)
RECURSIVE StrIndexFrom(_, _, _)
\* s.index(c), scanning from 0-based position i: the 0-based position of
\* the first occurrence, or -1 where Python raises ValueError.
StrIndexFrom(s, c, i) == IF i >= Len(s) THEN -1 ELSE IF s[i + 1] = c THEN i ELSE StrIndexFrom(s, c, i + 1)

StrIndex(s, c) == StrIndexFrom(s, c, 0)

\* s[start:] for start >= 0: empty when start is at or past the end.
SliceFrom(s, start) == IF start >= Len(s) THEN <<>> ELSE SubSeq(s, start + 1, Len(s))

RECURSIVE Reversed(_)
Reversed(s) == IF s = <<>> THEN <<>> ELSE Append(Reversed(Tail(s)), Head(s))

(***************************************************************************)
(* class Mail                                                              *)
(***************************************************************************)
\* Mail.__sanitize_subject cutting right after the ']' (mutation of Sanitize).
SanitizeKeepSeparator(subject) == LET i == StrIndex(subject, "]") IN IF i = -1 THEN subject ELSE SliceFrom(subject, i + 1)

\* Mail.__sanitize_subject: subject[subject.index(']')+2:], and the subject
\* itself when index raises.
Sanitize(subject) == LET i == StrIndex(subject, "]") IN IF i = -1 THEN subject ELSE SliceFrom(subject, i + 2)

\* Mail.__init__, stores the raw subject (mutation of MailInit).
MailInitRawSubject(subject, author, url) == [subject |-> subject, author |-> author, url |-> url]

\* Mail.__init__
MailInit(subject, author, url) == [subject |-> Sanitize(subject), author |-> author, url |-> url]

\* Mail.__eq__
MailEq(a, b) == a.url = b.url

\* `email in emails`: list membership by ==.
MailIn(email, emails) == \E i \in 1..Len(emails) : MailEq(emails[i], email)

(***************************************************************************)
(* class Threads: thread is the dict {subject: [Mail, ...]}, as the        *)
(* sequence of its entries [key, emails] in insertion order.               *)
(***************************************************************************)
ThreadsInit == <<>>

HasKey(t, k) == \E i \in 1..Len(t) : t[i].key = k

KeyPos(t, k) == CHOOSE i \in 1..Len(t) : t[i].key = k

\* Threads.append without the membership test (mutation of ThreadsAppend).
ThreadsAppendNoCheck(t, email) == IF HasKey(t, email.subject) THEN LET p == KeyPos(t, email.subject) IN [thread |-> [t EXCEPT ![p].emails = Append(@, email)], ret |-> TRUE] ELSE [thread |-> Append(t, [key |-> email.subject, emails |-> <<email>>]), ret |-> TRUE]

\* Threads.append putting the item first in its subject's list (mutation of
\* ThreadsAppend).
ThreadsAppendFront(t, email) == IF HasKey(t, email.subject) THEN LET p == KeyPos(t, email.subject) IN IF MailIn(email, t[p].emails) THEN [thread |-> t, ret |-> FALSE] ELSE [thread |-> [t EXCEPT ![p].emails = <<email>> \o @], ret |-> TRUE] ELSE [thread |-> Append(t, [key |-> email.subject, emails |-> <<email>>]), ret |-> TRUE]

\* Threads.append: the dict after the call, and the value returned.
ThreadsAppend(t, email) == IF HasKey(t, email.subject) THEN LET p == KeyPos(t, email.subject) IN IF MailIn(email, t[p].emails) THEN [thread |-> t, ret |-> FALSE] ELSE [thread |-> [t EXCEPT ![p].emails = Append(@, email)], ret |-> TRUE] ELSE [thread |-> Append(t, [key |-> email.subject, emails |-> <<email>>]), ret |-> TRUE]

\* Threads.count_threads
CountThreads(t) == Len(t)

RECURSIVE CountMails(_)
\* Threads.count_mails: the sum of the lengths of the values.
CountMails(t) == IF t = <<>> THEN 0 ELSE Len(Head(t).emails) + CountMails(Tail(t))

\* One item line of Threads.__str__: '\t{} - <{}>\n'.format(el.author, el.url)
StrItemLine(el) == <<"\t">> \o el.author \o <<" ", "-", " ", "<">> \o el.url \o <<">", "\n">>

RECURSIVE StrItems(_)
\* The inner loop of Threads.__str__ over an already reversed list.
StrItems(v) == IF v = <<>> THEN <<>> ELSE StrItemLine(Head(v)) \o StrItems(Tail(v))

\* One block of Threads.__str__: the key line, the items reversed, a blank line.
StrBlock(e) == e.key \o <<":", "\n">> \o StrItems(Reversed(e.emails)) \o <<"\n">>

RECURSIVE StrBlocks(_)
StrBlocks(es) == IF es = <<>> THEN <<>> ELSE StrBlock(Head(es)) \o StrBlocks(Tail(es))

\* Threads.__str__ visiting in insertion order (mutation of ThreadsStr).
ThreadsStrForward(t) == StrBlocks(t)

\* Threads.__str__
ThreadsStr(t) == StrBlocks(Reversed(t))

(***************************************************************************)
(* html.escape and time.strftime, as the standard library computes them.   *)
(***************************************************************************)
\* html.escape(s) on one character (quote=True).
EscapeChar(c) == IF c = "&" THEN <<"&", "a", "m", "p", ";">> ELSE IF c = "<" THEN <<"&", "l", "t", ";">> ELSE IF c = ">" THEN <<"&", "g", "t", ";">> ELSE IF c = "\"" THEN <<"&", "q", "u", "o", "t", ";">> ELSE IF c = "'" THEN <<"&", "#", "x", "2", "7", ";">> ELSE <<c>>

RECURSIVE HtmlEscape(_)
\* html.escape(s)
HtmlEscape(s) == IF s = <<>> THEN <<>> ELSE EscapeChar(Head(s)) \o HtmlEscape(Tail(s))

DigitChar(d) == <<"0", "1", "2", "3", "4", "5", "6", "7", "8", "9">>[d + 1]

\* A zero-padded two-digit decimal field of strftime (%d, %m, %y, %H, %M).
TwoDigits(n) == <<DigitChar((n \div 10) % 10), DigitChar(n % 10)>>

\* What a call gives: the str it returns, or the exception it raises.
Returned(s) == [raises |-> FALSE, error |-> "", str |-> s]

Raised(e) == [raises |-> TRUE, error |-> e, str |-> <<>>]

\* A Python int is unbounded; time.strftime reads each struct_time field into
\* a C int.  A field is modelled by its size class and, when it fits a C int,
\* its value: every int of one class outside the C int range is treated
\* alike by strftime.
CInt(n) == [size |-> "int", val |-> n]

\* An int above INT_MAX, or below INT_MIN, that fits a C long.
AboveInt == [size |-> "aboveInt", val |-> 0]

BelowInt == [size |-> "belowInt", val |-> 0]

\* An int that does not fit a C long.
BeyondLong == [size |-> "beyondLong", val |-> 0]

\* The fields of a struct_time, in the order strftime converts them.
TmFields == <<"tm_year", "tm_mon", "tm_mday", "tm_hour", "tm_min", "tm_sec", "tm_wday", "tm_yday", "tm_isdst">>

\* The conversion of the fields to C ints: the OverflowError of the first
\* field that does not fit, or "" when all fit.
ConvertError(date) == LET bad == {i \in 1..Len(TmFields) : date[TmFields[i]].size # "int"} IN IF bad = {} THEN "" ELSE LET size == date[TmFields[CHOOSE i \in bad : \A k \in bad : i <= k]].size IN IF size = "aboveInt" THEN "OverflowError: signed integer is greater than maximum" ELSE IF size = "belowInt" THEN "OverflowError: signed integer is less than minimum" ELSE "OverflowError: Python int too large to convert to C long"

\* The struct tm the conversion fills, when every field fits.
CFields(date) == [f \in DOMAIN date |-> date[f].val]

\* The limits of a C int.
IntMax == 2147483647

IntMin == -IntMax - 1

\* a % b in C, for b > 0: the remainder has the sign of a.
CRem(a, b) == IF a >= 0 THEN a % b ELSE -((-a) % b)

\* (tm_wday + 1) % 7 as time.strftime computes it in a C int.  At INT_MAX
\* the addition overflows, which C leaves undefined: w says whether the
\* build wraps around to INT_MIN or computes the exact sum.
WdayField(wday, w) == IF wday = IntMax THEN (IF w THEN -(((IntMax % 7) + 1) % 7) ELSE ((IntMax % 7) + 1) % 7) ELSE CRem(wday + 1, 7)

\* The checks time.strftime makes on its struct_time argument before it
\* formats, in its order: the exception raised, or "" when there is none.
\* Every field must fit a C int, which is checked for all of them first; the
\* year minus 1900 must fit a C int.  A zero month, day of month or day of
\* year is legal.  (tm_mon - 1 and tm_yday - 1 overflow at INT_MIN; the
\* field is rejected whether that wraps or not.)
TmError(date, w) == IF ConvertError(date) # "" THEN ConvertError(date) ELSE LET tm == CFields(date) IN IF tm.tm_year < IntMin + 1900 THEN "OverflowError: year out of range" ELSE IF tm.tm_mon < 0 \/ tm.tm_mon > 12 THEN "ValueError: month out of range" ELSE IF tm.tm_mday < 0 \/ tm.tm_mday > 31 THEN "ValueError: day of month out of range" ELSE IF tm.tm_hour < 0 \/ tm.tm_hour > 23 THEN "ValueError: hour out of range" ELSE IF tm.tm_min < 0 \/ tm.tm_min > 59 THEN "ValueError: minute out of range" ELSE IF tm.tm_sec < 0 \/ tm.tm_sec > 61 THEN "ValueError: seconds out of range" ELSE IF WdayField(tm.tm_wday, w) < 0 THEN "ValueError: day of week out of range" ELSE IF tm.tm_yday < 0 \/ tm.tm_yday > 366 THEN "ValueError: day of year out of range" ELSE ""

\* time.strftime forces a zero month or day of month to 1.
ZeroToOne(n) == IF n = 0 THEN 1 ELSE n

\* time.strftime('%d/%m/%y %H:%M', date), date a struct_time.
StrfTime(date, w) == IF TmError(date, w) # "" THEN Raised(TmError(date, w)) ELSE LET tm == CFields(date) IN Returned(TwoDigits(ZeroToOne(tm.tm_mday)) \o <<"/">> \o TwoDigits(ZeroToOne(tm.tm_mon)) \o <<"/">> \o TwoDigits(tm.tm_year % 100) \o <<" ">> \o TwoDigits(tm.tm_hour) \o <<":">> \o TwoDigits(tm.tm_min))

\* The marker every html() resolves: emojize(':point_right:') when the emoji
\* package can be imported (em), '-' on ImportError.  The glyph is one
\* character, written here by its code point.
Dash(em) == IF em THEN <<"U+1F449">> ELSE <<"-">>

RECURSIVE Join(_, _)
\* sep.join(parts)
Join(sep, parts) == IF parts = <<>> THEN <<>> ELSE IF Len(parts) = 1 THEN parts[1] ELSE parts[1] \o sep \o Join(sep, Tail(parts))

(***************************************************************************)
(* class Post                                                              *)
(***************************************************************************)
\* Post.__init__: the comments argument is never read.
PostInit(title, url, is_self, comments) == [title |-> title, url |-> url, self |-> is_self, comments |-> IF is_self THEN NoneVal ELSE Some(url)]

\* Post.comments: self.__comments or None
PostComments(p) == IF Truthy(p.comments) THEN p.comments ELSE NoneVal

\* Post.html
PostHtml(p) == <<"<", "a", " ", "h", "r", "e", "f", "=", "\"">> \o p.url \o <<"\"", ">">> \o HtmlEscape(p.title) \o <<"<", "/", "a", ">">> \o (IF Truthy(PostComments(p)) THEN <<" ", "(", "<", "a", " ", "h", "r", "e", "f", "=", "\"">> \o PostComments(p).str \o <<"\"", ">", "c", "o", "m", "m", "e", "n", "t", "s", "<", "/", "a", ">", ")">> ELSE <<>>)

(***************************************************************************)
(* class Subreddit: subreddit is the list of posts.                        *)
(***************************************************************************)
SubredditInit == <<>>

\* Subreddit.append
SubredditAppend(sub, p) == Append(sub, p)

\* Subreddit.html over the reversed list (mutation of SubredditHtml).
SubredditHtmlReversed(sub, em) == Join(<<"\n">>, [i \in 1..Len(sub) |-> Dash(em) \o <<" ">> \o PostHtml(Reversed(sub)[i])])

\* Subreddit.html
SubredditHtml(sub, em) == Join(<<"\n">>, [i \in 1..Len(sub) |-> Dash(em) \o <<" ">> \o PostHtml(sub[i])])

(***************************************************************************)
(* class Article, class Feed: feed is the list of articles.                *)
(***************************************************************************)
\* Article.__init__
ArticleInit(title, description, url, date) == [title |-> title, description |-> description, url |-> url, date |-> date]

\* Article.html (an exception of strftime passes through); the clock glyph is one character, written by its code point.
ArticleHtml(a, w) == LET t == StrfTime(a.date, w) IN IF t.raises THEN t ELSE Returned(<<"<", "a", " ", "h", "r", "e", "f", "=", "\"">> \o a.url \o <<"\"", ">">> \o a.title \o <<"<", "/", "a", ">", "\n", " ", " ", " ", " ", "U+231A", " ">> \o t.str)

FeedInit == <<>>

\* Feed.append
FeedAppend(f, a) == Append(f, a)

\* The position of the first article whose html() raises, 0 when none does.
FirstRaising(f, w) == LET bad == {i \in 1..Len(f) : ArticleHtml(f[i], w).raises} IN IF bad = {} THEN 0 ELSE CHOOSE i \in bad : \A k \in bad : i <= k

\* Feed.html over the reversed list (mutation of FeedHtml).
FeedHtmlReversed(f, em, w) == IF FirstRaising(Reversed(f), w) # 0 THEN ArticleHtml(Reversed(f)[FirstRaising(Reversed(f), w)], w) ELSE Returned(Join(<<"\n">>, [i \in 1..Len(f) |-> Dash(em) \o <<" ">> \o ArticleHtml(Reversed(f)[i], w).str]))

\* Feed.html: the list is built in order, and the first el.html() that
\* raises ends the call with its exception.
FeedHtml(f, em, w) == IF FirstRaising(f, w) # 0 THEN ArticleHtml(f[FirstRaising(f, w)], w) ELSE Returned(Join(<<"\n">>, [i \in 1..Len(f) |-> Dash(em) \o <<" ">> \o ArticleHtml(f[i], w).str]))

(***************************************************************************)
(* Inputs.                                                                 *)
(***************************************************************************)
MailSubjects == {DevBuildBroke, ReBuildBroke, ReDevBuildBroke}

MailAuthors == {Alice, Bob}

MailUrls == {Msg1, Msg2, Msg3}

SubjectAlphabet == {"[", "]", " ", "a"}

\* Every subject over the alphabet up to the bound, and the spec's examples.
RawSubjects == UNION {[1..k -> SubjectAlphabet] : k \in 0..MaxSubjectLen} \cup {GroupHello, DevBuildBroke, ReBuildBroke, ReDevBuildBroke}

PostTitles == {<<"t">>, <<"a", "&", "b">>, <<"<", "i", ">">>}

PostUrls == {<<"r", "/", "1">>, <<"r", "/", "2">>}

PostCommentArgs == {NoneVal, Some(<<"c", "/", "1">>), Some(<<"r", "/", "1">>)}

PostArgs == [title : PostTitles, url : PostUrls, is_self : BOOLEAN, comments : PostCommentArgs]

\* The posts a Subreddit is fed: built without a comments argument.
SubredditPostArgs == [title : {<<"a", "&", "b">>, <<"<", "i", ">">>}, url : PostUrls, is_self : BOOLEAN, comments : {NoneVal}]

\* time.struct_time((tm_year, tm_mon, tm_mday, tm_hour, tm_min, tm_sec, tm_wday, tm_yday, tm_isdst))
StructTime(y, mo, d, h, mi, wd) == [tm_year |-> CInt(y), tm_mon |-> CInt(mo), tm_mday |-> CInt(d), tm_hour |-> CInt(h), tm_min |-> CInt(mi), tm_sec |-> CInt(0), tm_wday |-> CInt(wd), tm_yday |-> CInt(1), tm_isdst |-> CInt(-1)]

\* A date of a calendar; one with a zero month (legal for strftime); one
\* with month 13, which strftime rejects; one whose year is below what fits
\* a C int once 1900 is taken off (and whose month is 13 too); one whose day
\* of the week is INT_MAX; one whose year is above INT_MAX (and whose month
\* is 13); one whose day of the year does not fit a C long.
ArticleDates == {StructTime(2017, 4, 9, 7, 5, 0), StructTime(2017, 0, 9, 7, 5, 0), StructTime(2017, 13, 9, 7, 5, 0), StructTime(IntMin + 1899, 13, 9, 7, 5, 0), StructTime(2017, 12, 25, 18, 30, IntMax), [StructTime(2017, 13, 9, 7, 5, 0) EXCEPT !.tm_year = AboveInt], [StructTime(2017, 4, 9, 7, 5, 0) EXCEPT !.tm_yday = BeyondLong]}

ArticleArgs == [title : {<<"n", "1">>, <<"n", "2">>}, description : {<<"d">>}, url : {<<"f", "/", "1">>}, date : ArticleDates]

(***************************************************************************)
(* The parts of the state a specification does not use stay as they are    *)
(* before anything is constructed.                                         *)
(***************************************************************************)
NoThreads == thread = ThreadsInit /\ calls = <<>>

NoMail == rawSubject = <<>> /\ mail = NoneVal

NoPost == postArgs = NoneVal /\ post = NoneVal /\ postHtml = NoneVal

NoSubreddit == subreddit = SubredditInit /\ posted = <<>>

NoFeed == feed = FeedInit /\ published = <<>>

(***************************************************************************)
(* Threads: a caller builds a Mail from (subject, author, url) and appends *)
(* it; calls records each call's arguments and return value.               *)
(***************************************************************************)
AppendMail(subject, author, url) == /\ Len(calls) < MaxAppends
                                    /\ LET r == ThreadsAppend(thread, MailInit(subject, author, url)) IN /\ thread' = r.thread
                                                                                                     /\ calls' = Append(calls, [subject |-> subject, author |-> author, url |-> url, ret |-> r.ret])
                                    /\ UNCHANGED <<rawSubject, mail, postArgs, post, postHtml, subreddit, posted, feed, published, emoji, wraps>>

Init == /\ thread = ThreadsInit
        /\ calls = <<>>
        /\ NoMail /\ NoPost /\ NoSubreddit /\ NoFeed
        /\ emoji = FALSE
        /\ wraps = TRUE

Next == \E subject \in MailSubjects, author \in MailAuthors, url \in MailUrls : AppendMail(subject, author, url)

Spec == Init /\ [][Next]_vars

(***************************************************************************)
(* Mail: the constructor applied to a raw subject.                         *)
(***************************************************************************)
ConstructMail == /\ mail = NoneVal
                 /\ mail' = MailInit(rawSubject, Alice, Msg1)
                 /\ UNCHANGED <<thread, calls, rawSubject, postArgs, post, postHtml, subreddit, posted, feed, published, emoji, wraps>>

InitMail == /\ rawSubject \in RawSubjects
            /\ mail = NoneVal
            /\ NoThreads /\ NoPost /\ NoSubreddit /\ NoFeed
            /\ emoji = FALSE
            /\ wraps = TRUE

NextMail == ConstructMail

SpecMail == InitMail /\ [][NextMail]_vars

(***************************************************************************)
(* Post: the constructor applied to its arguments, then html().            *)
(***************************************************************************)
ConstructPost == /\ post = NoneVal
                 /\ post' = PostInit(postArgs.title, postArgs.url, postArgs.is_self, postArgs.comments)
                 /\ UNCHANGED <<thread, calls, rawSubject, mail, postArgs, postHtml, subreddit, posted, feed, published, emoji, wraps>>

RenderPost == /\ post # NoneVal
              /\ postHtml = NoneVal
              /\ postHtml' = Some(PostHtml(post))
              /\ UNCHANGED <<thread, calls, rawSubject, mail, postArgs, post, subreddit, posted, feed, published, emoji, wraps>>

InitPost == /\ postArgs \in PostArgs
            /\ post = NoneVal
            /\ postHtml = NoneVal
            /\ NoThreads /\ NoMail /\ NoSubreddit /\ NoFeed
            /\ emoji = FALSE
            /\ wraps = TRUE

NextPost == ConstructPost \/ RenderPost

SpecPost == InitPost /\ [][NextPost]_vars

(***************************************************************************)
(* Subreddit: posts are appended; posted records them in call order.       *)
(* emoji says whether the emoji package can be imported.                   *)
(***************************************************************************)
AppendPost(a) == /\ Len(posted) < MaxPosts
                 /\ LET p == PostInit(a.title, a.url, a.is_self, a.comments) IN /\ subreddit' = SubredditAppend(subreddit, p)
                                                                              /\ posted' = Append(posted, p)
                 /\ UNCHANGED <<thread, calls, rawSubject, mail, postArgs, post, postHtml, feed, published, emoji, wraps>>

InitSubreddit == /\ subreddit = SubredditInit
                 /\ posted = <<>>
                 /\ emoji \in BOOLEAN
                 /\ wraps = TRUE
                 /\ NoThreads /\ NoMail /\ NoPost /\ NoFeed

NextSubreddit == \E a \in SubredditPostArgs : AppendPost(a)

SpecSubreddit == InitSubreddit /\ [][NextSubreddit]_vars

(***************************************************************************)
(* Feed: articles are appended; published records them in call order.      *)
(* wraps says what the build of time.strftime does on signed overflow.     *)
(***************************************************************************)
AppendArticle(a) == /\ Len(published) < MaxArticles
                    /\ LET art == ArticleInit(a.title, a.description, a.url, a.date) IN /\ feed' = FeedAppend(feed, art)
                                                                                      /\ published' = Append(published, art)
                    /\ UNCHANGED <<thread, calls, rawSubject, mail, postArgs, post, postHtml, subreddit, posted, emoji, wraps>>

InitFeed == /\ feed = FeedInit
            /\ published = <<>>
            /\ emoji \in BOOLEAN
            /\ wraps \in BOOLEAN
            /\ NoThreads /\ NoMail /\ NoPost /\ NoSubreddit

NextFeed == \E a \in ArticleArgs : AppendArticle(a)

SpecFeed == InitFeed /\ [][NextFeed]_vars

(***************************************************************************)
(* Properties of Threads, checked under Spec.                              *)
(***************************************************************************)
\* The sanitized subject and url of the i-th recorded call.
CallKey(i) == Sanitize(calls[i].subject)

LastCall == calls[Len(calls)]

\* C1: in every reachable state no subject's sequence in Threads.thread
\* contains two Mail items with equal url.
C1_NoDuplicateUrl == \A e \in 1..Len(thread) : \A i, j \in 1..Len(thread[e].emails) : i # j => thread[e].emails[i].url # thread[e].emails[j].url

\* C1 witness: a duplicate was offered and refused, and its subject holds
\* two items.
C1_Witness == \E i \in 1..Len(calls) : ~calls[i].ret /\ \E e \in 1..Len(thread) : thread[e].key = CallKey(i) /\ Len(thread[e].emails) >= 2

\* The url of the call about to be recorded is already present under its
\* sanitized subject (evaluated on the state before the call).
DuplicateBefore(t, key, url) == \E e \in 1..Len(t) : t[e].key = key /\ \E m \in 1..Len(t[e].emails) : t[e].emails[m].url = url

C2_Step == LET c == calls'[Len(calls')]
               key == Sanitize(c.subject)
               item == [subject |-> key, author |-> c.author, url |-> c.url]
               dup == DuplicateBefore(thread, key, c.url)
           IN  /\ c.ret = ~dup
               /\ dup => thread' = thread
               /\ ~dup => /\ HasKey(thread', key)
                          /\ LET es == thread'[KeyPos(thread', key)].emails IN es[Len(es)] = item
                          /\ HasKey(thread, key) => /\ Len(thread') = Len(thread)
                                                    /\ thread'[KeyPos(thread', key)].emails = Append(thread[KeyPos(thread, key)].emails, item)
                          /\ ~HasKey(thread, key) => /\ Len(thread') = Len(thread) + 1
                                                     /\ thread'[Len(thread')] = [key |-> key, emails |-> <<item>>]
                          /\ \A e \in 1..Len(thread) : thread[e].key # key => thread'[e] = thread[e]

\* C2: append returns false exactly when an item with the same url already
\* exists under the item's sanitized subject, and then the collection is
\* unchanged; otherwise it returns true and the item becomes the last
\* element of its subject's sequence (created if the subject was absent).
C2_AppendResult == [][C2_Step]_vars

\* C2 witness: both outcomes have happened: an append that returned true
\* and one that returned false.
C2_Witness == (\E i \in 1..Len(calls) : calls[i].ret) /\ (\E i \in 1..Len(calls) : ~calls[i].ret)

CallArgs(i) == <<calls[i].subject, calls[i].author, calls[i].url>>

\* The three appends of the end-to-end scenario, in order.
ScenarioRun == /\ Len(calls) = Len(<<DevBuildBroke, ReBuildBroke, DevBuildBroke>>)
               /\ [i \in 1..Len(calls) |-> CallArgs(i)] = <<(<<DevBuildBroke, Alice, Msg1>>), (<<ReBuildBroke, Bob, Msg2>>), (<<DevBuildBroke, Bob, Msg1>>)>>

\* C3 as stated: after the scenario count_threads() == 1, count_mails() == 2
\* and the duplicate append returned false.
C3_Original == ScenarioRun => (CountThreads(thread) = 1 /\ CountMails(thread) = 2 /\ ~LastCall.ret)

\* C3 amended: after the scenario count_threads() == 2 ("Re: Build broke"
\* holds no ']' and is kept whole, so it is a subject of its own),
\* count_mails() == 2 and the duplicate append returned false.
C3_Scenario == ScenarioRun => (CountThreads(thread) = 2 /\ CountMails(thread) = 2 /\ ~LastCall.ret)

\* C3 witness: the scenario has been run.
C3_Witness == ScenarioRun

\* The distinct (sanitized subject, url) pairs among the appended items.
AppendedPairs(cs) == {<<Sanitize(cs[i].subject), cs[i].url>> : i \in 1..Len(cs)}

C4_Count == CountMails(thread) = Cardinality(AppendedPairs(calls))

C4_Step == LET c == calls'[Len(calls')] IN DuplicateBefore(thread, Sanitize(c.subject), c.url) => CountMails(thread') <= CountMails(thread)

\* C4: count_mails() equals the number of distinct (sanitized subject, url)
\* pairs among the appended items, and appending an item whose url is
\* already present under the same sanitized subject never increases it.
C4_CountMails == [](C4_Count) /\ [][C4_Step]_vars

\* C4 witness: a url was appended twice under one sanitized subject, so
\* there are fewer mails than calls.
C4_Witness == Len(calls) >= 2 /\ CountMails(thread) < Len(calls) /\ \E i \in 1..Len(calls) : ~calls[i].ret

\* C5: items whose raw subjects differ but whose sanitized subjects are
\* identical are stored under the same key, and count_threads() equals the
\* number of distinct sanitized subjects among the appended items.
C5_Grouping == /\ CountThreads(thread) = Cardinality({CallKey(i) : i \in 1..Len(calls)})
               /\ \A i \in 1..Len(calls) : \E e \in 1..Len(thread) : /\ thread[e].key = CallKey(i)
                                                                    /\ \E m \in 1..Len(thread[e].emails) : thread[e].emails[m].url = calls[i].url
                                                                    /\ \A f \in 1..Len(thread) : f # e => thread[f].key # CallKey(i)

\* C5 witness: two accepted items with different raw subjects share a
\* sanitized subject, so there are fewer threads than raw subjects.
C5_Witness == /\ \E i, j \in 1..Len(calls) : calls[i].ret /\ calls[j].ret /\ calls[i].subject # calls[j].subject /\ CallKey(i) = CallKey(j)
              /\ CountThreads(thread) < Cardinality({calls[i].subject : i \in 1..Len(calls)})

RECURSIVE Concat(_)
\* The concatenation of a sequence of strings.
Concat(ss) == IF ss = <<>> THEN <<>> ELSE Head(ss) \o Concat(Tail(ss))

RECURSIVE CreatedKeys(_)
\* The sanitized subjects of the recorded calls, in order of first use.
CreatedKeys(cs) == IF cs = <<>> THEN <<>> ELSE LET prev == CreatedKeys(SubSeq(cs, 1, Len(cs) - 1))
                                                   k == Sanitize(cs[Len(cs)].subject)
                                               IN  IF \E i \in 1..Len(prev) : prev[i] = k THEN prev ELSE Append(prev, k)

\* The accepted calls under sanitized subject k, in call order.
AcceptedUnder(cs, k) == SelectSeq(cs, LAMBDA c : c.ret /\ Sanitize(c.subject) = k)

\* What str() must be, from the call order alone: the last created subject
\* first and, under each subject, the last accepted item first.
ExpectedBlock(cs, k) == LET items == AcceptedUnder(cs, k)
                            n == Len(items)
                        IN  k \o <<":", "\n">> \o Concat([i \in 1..n |-> <<"\t">> \o items[n + 1 - i].author \o <<" ", "-", " ", "<">> \o items[n + 1 - i].url \o <<">", "\n">>]) \o <<"\n">>

ExpectedStr(cs) == LET keys == CreatedKeys(cs)
                       n == Len(keys)
                   IN  Concat([i \in 1..n |-> ExpectedBlock(cs, keys[n + 1 - i])])

\* C6: str() visits subjects in reverse order of creation and, within each
\* subject, items in reverse append order; the order depends only on the
\* call order of append.
C6_ReverseOrder == ThreadsStr(thread) = ExpectedStr(calls)

\* C6 witness: three items A, B, C were accepted under one subject.
C6_Witness == \E e \in 1..Len(thread) : Len(thread[e].emails) >= 3

\* A second witness of C6's case: two subjects were created.
C6_TwoSubjects == Len(thread) >= 2 /\ \E e \in 1..Len(thread) : Len(thread[e].emails) >= 2

(***************************************************************************)
(* Properties of the renderings of Subreddit and Feed, checked under       *)
(* SpecSubreddit and SpecFeed.                                             *)
(***************************************************************************)
RECURSIVE JoinLines(_)
\* The lines one after the other, a newline between neighbours.
JoinLines(ls) == IF ls = <<>> THEN <<>> ELSE IF Len(ls) = 1 THEN ls[1] ELSE JoinLines(SubSeq(ls, 1, Len(ls) - 1)) \o <<"\n">> \o ls[Len(ls)]

\* The output line of one post, and the output entry of one article.
PostLine(p) == Dash(emoji) \o <<" ">> \o PostHtml(p)

ArticleEntry(a) == Dash(emoji) \o <<" ">> \o ArticleHtml(a, wraps).str

\* C7 as stated: for posts appended in order P1, ..., Pn the output lines
\* of Subreddit.html() are those of Pn, ..., P1.
C7_Original == SubredditHtml(subreddit, emoji) = JoinLines([i \in 1..Len(posted) |-> PostLine(posted[Len(posted) + 1 - i])])

\* C7 amended: Subreddit.html() renders the posts in insertion order: for
\* posts appended in order P1, ..., Pn the output lines are those of
\* P1, ..., Pn.
C7_InsertionOrder == SubredditHtml(subreddit, emoji) = JoinLines([i \in 1..Len(posted) |-> PostLine(posted[i])])

\* C7 witness: two posts with different lines were appended.
C7_Witness == Len(posted) >= 2 /\ PostLine(posted[1]) # PostLine(posted[2])

\* C8 as stated: for articles appended in order A1, ..., An the output
\* entries of Feed.html() are those of An, ..., A1 (said of every call that
\* returns).
C8_Original == FeedHtml(feed, emoji, wraps).raises \/ FeedHtml(feed, emoji, wraps).str = JoinLines([i \in 1..Len(published) |-> ArticleEntry(published[Len(published) + 1 - i])])

\* C8 amended: Feed.html() renders the articles in insertion order: for
\* articles appended in order A1, ..., An the output entries are those of
\* A1, ..., An (said of every call that returns).
C8_InsertionOrder == FeedHtml(feed, emoji, wraps).raises \/ FeedHtml(feed, emoji, wraps).str = JoinLines([i \in 1..Len(published) |-> ArticleEntry(published[i])])

\* C8 witness: two articles with different entries were appended and
\* html() returns.
C8_Witness == Len(published) >= 2 /\ ~FeedHtml(feed, emoji, wraps).raises /\ ArticleEntry(published[1]) # ArticleEntry(published[2])

\* States of SpecFeed that show each outcome of html() is reached: a zero
\* month rendered as 01; the exception of the first article whose date
\* strftime rejects; both outcomes of a day of the week of INT_MAX.
C8_ZeroMonth == \E i \in 1..Len(published) : published[i].date.tm_mon = CInt(0) /\ ~FeedHtml(feed, emoji, wraps).raises

C8_RaisesValueError == Len(published) >= 2 /\ ~ArticleHtml(published[1], wraps).raises /\ FeedHtml(feed, emoji, wraps).error = "ValueError: month out of range"

C8_YearOutOfRange == Len(published) >= 1 /\ FeedHtml(feed, emoji, wraps).error = "OverflowError: year out of range"

C8_FieldAboveInt == Len(published) >= 1 /\ FeedHtml(feed, emoji, wraps).error = "OverflowError: signed integer is greater than maximum"

C8_FieldBeyondLong == Len(published) >= 1 /\ FeedHtml(feed, emoji, wraps).error = "OverflowError: Python int too large to convert to C long"

C8_WdayExact == Len(published) >= 1 /\ published[1].date.tm_wday = CInt(IntMax) /\ ~wraps /\ ~FeedHtml(feed, emoji, wraps).raises

C8_WdayWraps == Len(published) >= 1 /\ published[1].date.tm_wday = CInt(IntMax) /\ wraps /\ FeedHtml(feed, emoji, wraps).error = "ValueError: day of week out of range"

(***************************************************************************)
(* Properties of Post, checked under SpecPost.                             *)
(***************************************************************************)
EndsWith(s, suffix) == Len(s) >= Len(suffix) /\ SubSeq(s, Len(s) - Len(suffix) + 1, Len(s)) = suffix

\* The "(comments)" hyperlink with the given target.
CommentsLink(target) == <<" ", "(", "<", "a", " ", "h", "r", "e", "f", "=", "\"">> \o target \o <<"\"", ">", "c", "o", "m", "m", "e", "n", "t", "s", "<", "/", "a", ">", ")">>

\* A comments link was supplied and it is not the url.
DistinctCommentsSupplied == ~postArgs.comments.isNone /\ postArgs.comments.str # postArgs.url

\* The comments value the claim gives a post that is not a self post.
ClaimedComments == IF DistinctCommentsSupplied THEN postArgs.comments ELSE Some(postArgs.url)

\* C9: if is_self then comments is null and html() has no "(comments)"
\* suffix, whatever comments argument was passed; otherwise comments is the
\* supplied comments link when a distinct one was supplied and url
\* otherwise, and html() ends with a "(comments)" hyperlink to that value.
C9_Comments == /\ post # NoneVal => PostComments(post) = (IF postArgs.is_self THEN NoneVal ELSE ClaimedComments)
               /\ postHtml # NoneVal => IF postArgs.is_self THEN ~EndsWith(postHtml.str, <<"c", "o", "m", "m", "e", "n", "t", "s", "<", "/", "a", ">", ")">>) ELSE EndsWith(postHtml.str, CommentsLink(ClaimedComments.str))

\* The self-post half of C9, which the code satisfies.
C9_SelfPost == /\ (post # NoneVal /\ postArgs.is_self) => PostComments(post) = NoneVal
               /\ (postHtml # NoneVal /\ postArgs.is_self) => ~EndsWith(postHtml.str, <<"c", "o", "m", "m", "e", "n", "t", "s", "<", "/", "a", ">", ")">>)

(***************************************************************************)
(* Properties of Mail.__sanitize_subject, checked under SpecMail.          *)
(***************************************************************************)
HasBracket(s) == \E i \in 1..Len(s) : s[i] = "]"

\* The position (from 1) of the first ']' of s.
FirstBracket(s) == CHOOSE i \in 1..Len(s) : s[i] = "]" /\ \A j \in 1..(i - 1) : s[j] # "]"

\* s when it holds no ']', else what follows the first ']' and one more
\* character (nothing when fewer than two characters follow the ']').
ExpectedSubject(s) == IF ~HasBracket(s) THEN s ELSE LET b == FirstBracket(s) IN [k \in 1..(Len(s) - b - 1) |-> s[b + 1 + k]]

\* C10: Mail(s, ...).subject equals s when s contains no ']', and otherwise
\* the suffix of s starting two characters after the first ']' (empty when
\* fewer than two characters follow it); "[Group] Hello" yields "Hello".
C10_Sanitizer == mail # NoneVal => /\ mail.subject = ExpectedSubject(rawSubject)
                                   /\ rawSubject = GroupHello => mail.subject = Hello

\* C10 witness: the Mail of "[Group] Hello" was constructed.
C10_Witness == mail # NoneVal /\ rawSubject = GroupHello

\* A further case of C10: a ']' with fewer than two characters after it.
C10_ShortTail == mail # NoneVal /\ HasBracket(rawSubject) /\ Len(rawSubject) - FirstBracket(rawSubject) < 2 /\ mail.subject = <<>>

====
